---- MODULE Spec2Model ----
(***************************************************************************)
(* Model of lib/ansible/modules/network/aci/aci_bd_dhcp_label.py: main()   *)
(* validates the parameters of one invocation, builds the locator          *)
(* tenant -> bridge domain -> DHCP label, and drives the ACIModule         *)
(* collaborator through fetch / payload / diff / write or delete.          *)
(*                                                                         *)
(* main() is modelled statement by statement (pc names the next statement  *)
(* to run).  AnsibleModule (the framework's parameter validation) and      *)
(* ACIModule (the REST client) are collaborators of this module; they are  *)
(* modelled by their interface contract: validation before any I/O, fetch, *)
(* diff, write only when the diff is not empty, delete only when the       *)
(* object exists.                                                          *)
(***************************************************************************)
EXTENDS Integers, Sequences, FiniteSets, TLC

VARIABLES
    args,       \* parameters the caller supplied (None = omitted), after alias resolution
    remote,     \* dhcpLbl objects held by the fabric
    remote0,    \* remote as it was when this invocation started
    pc,         \* next statement of main(), or "done" / "failed"
    calls,      \* ACIModule methods called so far in this invocation, in order
    requests,   \* HTTP requests issued to the fabric in this invocation, in order
    url,        \* the locator handed to construct_url
    existing,   \* aci.existing: objects fetched by get_existing
    proposed,   \* aci.proposed: the desired configuration built by payload
    config,     \* aci.config: the difference computed by get_diff
    changed,    \* aci.result['changed']
    failure,    \* why the invocation failed: [kind, op]
    run,        \* index of this invocation in a row of identical invocations
    prev        \* how the previous invocation of the row ended

vars == <<args, remote, remote0, pc, calls, requests, url, existing, proposed,
          config, changed, failure, run, prev>>

(***************************************************************************)
(* Bounds                                                                  *)
(***************************************************************************)
MaxLabel == 2
MaxRuns == 2

None == "<None>"

Tenants == {"T1"}
BDs == {"BD1"}
Labels == {"L" \o ToString(i) : i \in 1..MaxLabel}
Options == {"O1"}
Owners == {"infra", "tenant"}

\* str.format of a parameter value: None prints as 'None'
format(v) == IF v = None THEN "None" ELSE v

(***************************************************************************)
(* The parameter schema                                                    *)
(***************************************************************************)
\* aci_argument_spec(): the common connection parameters
aci_argument_spec == {"host", "port", "username", "password", "validate_certs"}

\* the mutant declares owner with default 'tenant'
argument_spec_owner_default_tenant ==
    [ bd          |-> [default |-> None,      choices |-> {}],
      dhcp_label  |-> [default |-> None,      choices |-> {}],
      dhcp_option |-> [default |-> None,      choices |-> {}],
      owner       |-> [default |-> "tenant",  choices |-> {"infra", "tenant"}],
      state       |-> [default |-> "present", choices |-> {"absent", "present", "query"}],
      tenant      |-> [default |-> None,      choices |-> {}] ]

\* argument_spec.update(...): the module's own parameters
argument_spec ==
    [ bd          |-> [default |-> None,      choices |-> {}],
      dhcp_label  |-> [default |-> None,      choices |-> {}],
      dhcp_option |-> [default |-> None,      choices |-> {}],
      owner       |-> [default |-> "infra",   choices |-> {"infra", "tenant"}],
      state       |-> [default |-> "present", choices |-> {"absent", "present", "query"}],
      tenant      |-> [default |-> None,      choices |-> {}] ]

\* the options the module's DOCUMENTATION declares
DOCUMENTATION_options == {"bd", "description", "dhcp_label", "dhcp_option", "owner", "tenant"}

\* the mutant forgets the rule for state absent
required_if_present_only ==
    { [key |-> "state", val |-> "present", requirements |-> {"dhcp_label", "bd", "tenant"}] }

\* required_if of the AnsibleModule constructor
required_if ==
    { [key |-> "state", val |-> "absent",  requirements |-> {"dhcp_label", "bd", "tenant"}],
      [key |-> "state", val |-> "present", requirements |-> {"dhcp_label", "bd", "tenant"}] }

ModuleKeys == DOMAIN argument_spec

\* every key the invocation surface recognises
recognized == ModuleKeys \cup aci_argument_spec

\* the keys an invocation supplies
supplied(a) == {k \in ModuleKeys : a[k] # None} \cup a.extra

\* module.params: the supplied values with the schema's defaults filled in
module_params(a) ==
    [k \in ModuleKeys |-> IF a[k] = None THEN argument_spec[k].default ELSE a[k]]

\* AnsibleModule: parameters the schema does not declare are rejected
unsupported(a) == supplied(a) \ recognized

\* AnsibleModule: the required_if rules whose requirements are not all supplied
missing_required(a) ==
    UNION { {k \in r.requirements : module_params(a)[k] = None} :
            r \in {q \in required_if : module_params(a)[q.key] = q.val} }

(***************************************************************************)
(* The locator and the payload main() builds                               *)
(***************************************************************************)
root_class(tenant) ==
    [ aci_class     |-> "fvTenant",
      aci_rn        |-> "tn-" \o format(tenant),
      target_filter |-> "eq(fvTenant.name, \"" \o format(tenant) \o "\")",
      module_object |-> tenant ]

subclass_1(bd) ==
    [ aci_class     |-> "fvBD",
      aci_rn        |-> "BD-" \o format(bd),
      target_filter |-> "eq(fvBD.name, \"" \o format(bd) \o "\")",
      module_object |-> bd ]

\* the mutant uses the class name as the relative-name prefix
subclass_2_class_prefix(label) ==
    [ aci_class     |-> "dhcpLbl",
      aci_rn        |-> "dhcpLbl-" \o format(label),
      target_filter |-> "eq(dhcpLbl.name, \"" \o format(label) \o "\")",
      module_object |-> label ]

subclass_2(label) ==
    [ aci_class     |-> "dhcpLbl",
      aci_rn        |-> "dhcplbl-" \o format(label),
      target_filter |-> "eq(dhcpLbl.name, \"" \o format(label) \o "\")",
      module_object |-> label ]

child_classes == <<"dhcpRsDhcpOptionPol">>

\* the keyword arguments of aci.construct_url
construct_url_args(p) ==
    [ segments      |-> <<root_class(p.tenant), subclass_1(p.bd), subclass_2(p.dhcp_label)>>,
      child_classes |-> child_classes ]

\* the mutant always proposes owner 'infra'
class_config_owner_infra(label, owner) ==
    [name |-> label, owner |-> "infra"]

\* class_config of aci.payload
class_config(label, owner) ==
    [name |-> label, owner |-> owner]

\* the mutant links every label to the policy named 'default'
child_configs_default_policy(option) ==
    << [class |-> "dhcpRsDhcpOptionPol", key |-> "tnDhcpOptionPolName", value |-> "default"] >>

\* child_configs of aci.payload
child_configs(option) ==
    << [class |-> "dhcpRsDhcpOptionPol", key |-> "tnDhcpOptionPolName", value |-> option] >>

\* the mutant deletes after the write
main_next_post_then_delete(stmt, state) ==
    CASE stmt = "AnsibleModule" -> "ACIModule"
      [] stmt = "ACIModule"     -> "construct_url"
      [] stmt = "construct_url" -> "get_existing"
      [] stmt = "get_existing"  -> IF state = "present" THEN "payload"
                                   ELSE IF state = "absent" THEN "delete_config"
                                   ELSE "exit_json"
      [] stmt = "payload"       -> "get_diff"
      [] stmt = "get_diff"      -> "post_config"
      [] stmt = "post_config"   -> "delete_config"
      [] stmt = "delete_config" -> "exit_json"
      [] stmt = "exit_json"     -> "done"

\* the mutant takes the delete branch for every state but present
main_next_else_delete(stmt, state) ==
    CASE stmt = "AnsibleModule" -> "ACIModule"
      [] stmt = "ACIModule"     -> "construct_url"
      [] stmt = "construct_url" -> "get_existing"
      [] stmt = "get_existing"  -> IF state = "present" THEN "payload"
                                   ELSE "delete_config"
      [] stmt = "payload"       -> "get_diff"
      [] stmt = "get_diff"      -> "post_config"
      [] stmt = "post_config"   -> "exit_json"
      [] stmt = "delete_config" -> "exit_json"
      [] stmt = "exit_json"     -> "done"

\* the mutant swaps the branches of present and absent
main_next_swapped(stmt, state) ==
    CASE stmt = "AnsibleModule" -> "ACIModule"
      [] stmt = "ACIModule"     -> "construct_url"
      [] stmt = "construct_url" -> "get_existing"
      [] stmt = "get_existing"  -> IF state = "absent" THEN "payload"
                                   ELSE IF state = "present" THEN "delete_config"
                                   ELSE "exit_json"
      [] stmt = "payload"       -> "get_diff"
      [] stmt = "get_diff"      -> "post_config"
      [] stmt = "post_config"   -> "exit_json"
      [] stmt = "delete_config" -> "exit_json"
      [] stmt = "exit_json"     -> "done"

\* the mutant computes the diff before it builds the payload
main_next_diff_first(stmt, state) ==
    CASE stmt = "AnsibleModule" -> "ACIModule"
      [] stmt = "ACIModule"     -> "construct_url"
      [] stmt = "construct_url" -> "get_existing"
      [] stmt = "get_existing"  -> IF state = "present" THEN "get_diff"
                                   ELSE IF state = "absent" THEN "delete_config"
                                   ELSE "exit_json"
      [] stmt = "get_diff"      -> "payload"
      [] stmt = "payload"       -> "post_config"
      [] stmt = "post_config"   -> "exit_json"
      [] stmt = "delete_config" -> "exit_json"
      [] stmt = "exit_json"     -> "done"

\* the statement of main() that runs after stmt
main_next(stmt, state) ==
    CASE stmt = "AnsibleModule" -> "ACIModule"
      [] stmt = "ACIModule"     -> "construct_url"
      [] stmt = "construct_url" -> "get_existing"
      [] stmt = "get_existing"  -> IF state = "present" THEN "payload"
                                   ELSE IF state = "absent" THEN "delete_config"
                                   ELSE "exit_json"
      [] stmt = "payload"       -> "get_diff"
      [] stmt = "get_diff"      -> "post_config"
      [] stmt = "post_config"   -> "exit_json"
      [] stmt = "delete_config" -> "exit_json"
      [] stmt = "exit_json"     -> "done"

(***************************************************************************)
(* The ACIModule collaborator (interface contract)                         *)
(***************************************************************************)
\* the objects a locator matches: an omitted segment matches every object
matches(u, o) ==
    /\ u.segments[1].module_object \in {None, o.tenant}
    /\ u.segments[2].module_object \in {None, o.bd}
    /\ u.segments[3].module_object \in {None, o.name}

\* the attributes and the child associations of a fetched object
attributes_of(o) == { <<"name", o.name>>, <<"owner", o.owner>> }
children_of(o) ==
    IF o.option = None THEN {}
    ELSE { <<"dhcpRsDhcpOptionPol", "tnDhcpOptionPolName", o.option>> }

\* payload: the desired attributes and associations, values not supplied left out
payload_attributes(cc) ==
    { kv \in { <<"name", cc.name>>, <<"owner", cc.owner>> } : kv[2] # None }
payload_children(cs) ==
    { <<cs[i].class, cs[i].key, cs[i].value>> : i \in {j \in DOMAIN cs : cs[j].value # None} }

\* get_diff: what is proposed and not already there
diff(prop, ex) ==
    [ attributes |-> prop.attributes \ UNION { attributes_of(o) : o \in ex },
      children   |-> prop.children   \ UNION { children_of(o)   : o \in ex } ]

lookup(pairs, key, default) ==
    IF \E kv \in pairs : kv[1] = key
    THEN (CHOOSE kv \in pairs : kv[1] = key)[2]
    ELSE default

\* the object a write leaves at the locator: the fetched one with the diff applied
written(u, ex, cfg) ==
    LET old == IF ex = {}
               THEN [tenant |-> u.segments[1].module_object,
                     bd     |-> u.segments[2].module_object,
                     name   |-> u.segments[3].module_object,
                     owner  |-> None, option |-> None]
               ELSE CHOOSE o \in ex : TRUE
    IN [ old EXCEPT
           !.owner  = lookup(cfg.attributes, "owner", old.owner),
           !.option = IF cfg.children = {} THEN old.option
                      ELSE (CHOOSE c \in cfg.children : TRUE)[3] ]

NoUrl == [segments |-> <<>>, child_classes |-> <<>>]
Nothing == [attributes |-> {}, children |-> {}]
NoFailure == [kind |-> "none", op |-> "none"]

fail_json(kind, op) ==
    /\ pc' = "failed"
    /\ failure' = [kind |-> kind, op |-> op]

params == module_params(args)

(***************************************************************************)
(* Initial states: one invocation against an arbitrary fabric              *)
(***************************************************************************)
Objects ==
    [tenant : Tenants, bd : BDs, name : Labels, owner : Owners, option : Options \cup {None}]

dn(o) == <<o.tenant, o.bd, o.name>>

Fabrics == { f \in SUBSET Objects : \A o1, o2 \in f : dn(o1) = dn(o2) => o1 = o2 }

Invocations ==
    [ bd          : BDs \cup {None},
      dhcp_label  : Labels \cup {None},
      dhcp_option : Options \cup {None},
      owner       : Owners \cup {None},
      state       : {"absent", "present", "query", None},
      tenant      : Tenants \cup {None},
      extra       : SUBSET {"description"} ]

Init ==
    /\ args \in Invocations
    /\ remote \in Fabrics
    /\ remote0 = remote
    /\ pc = "AnsibleModule"
    /\ calls = <<>>
    /\ requests = <<>>
    /\ url = NoUrl
    /\ existing = {}
    /\ proposed = Nothing
    /\ config = Nothing
    /\ changed = FALSE
    /\ failure = NoFailure
    /\ run = 1
    /\ prev = "none"

(***************************************************************************)
(* main(), one action per statement                                        *)
(***************************************************************************)
\* module = AnsibleModule(argument_spec=..., required_if=...)
AnsibleModule ==
    /\ pc = "AnsibleModule"
    /\ IF unsupported(args) # {}
       THEN fail_json("unsupported_parameters", "AnsibleModule")
       ELSE IF missing_required(args) # {}
       THEN fail_json("missing_required", "AnsibleModule")
       ELSE pc' = main_next("AnsibleModule", params.state) /\ UNCHANGED failure
    /\ UNCHANGED <<args, remote, remote0, calls, requests, url, existing, proposed,
                   config, changed, run, prev>>

\* aci = ACIModule(module): opens the session; authentication may fail
ACIModule ==
    /\ pc = "ACIModule"
    /\ \/ pc' = main_next("ACIModule", params.state) /\ UNCHANGED failure
       \/ fail_json("remote_error", "ACIModule")
    /\ UNCHANGED <<args, remote, remote0, calls, requests, url, existing, proposed,
                   config, changed, run, prev>>

\* aci.construct_url(root_class=..., subclass_1=..., subclass_2=..., child_classes=...)
construct_url ==
    /\ pc = "construct_url"
    /\ calls' = Append(calls, "construct_url")
    /\ url' = construct_url_args(params)
    /\ pc' = main_next("construct_url", params.state)
    /\ UNCHANGED <<args, remote, remote0, requests, existing, proposed, config,
                   changed, failure, run, prev>>

\* aci.get_existing()
get_existing ==
    /\ pc = "get_existing"
    /\ calls' = Append(calls, "get_existing")
    /\ requests' = Append(requests, "GET")
    /\ \/ /\ existing' = {o \in remote : matches(url, o)}
          /\ pc' = main_next("get_existing", params.state)
          /\ UNCHANGED failure
       \/ /\ fail_json("remote_error", "get_existing")
          /\ UNCHANGED existing
    /\ UNCHANGED <<args, remote, remote0, url, proposed, config, changed, run, prev>>

\* aci.payload(aci_class='dhcpLbl', class_config=..., child_configs=...)
payload ==
    /\ pc = "payload"
    /\ calls' = Append(calls, "payload")
    /\ proposed' = [ attributes |-> payload_attributes(class_config(params.dhcp_label, params.owner)),
                     children   |-> payload_children(child_configs(params.dhcp_option)) ]
    /\ pc' = main_next("payload", params.state)
    /\ UNCHANGED <<args, remote, remote0, requests, url, existing, config, changed,
                   failure, run, prev>>

\* aci.get_diff(aci_class='dhcpLbl')
get_diff ==
    /\ pc = "get_diff"
    /\ calls' = Append(calls, "get_diff")
    /\ config' = diff(proposed, existing)
    /\ pc' = main_next("get_diff", params.state)
    /\ UNCHANGED <<args, remote, remote0, requests, url, existing, proposed, changed,
                   failure, run, prev>>

\* aci.post_config(): a write is issued only when the diff is not empty
post_config ==
    /\ pc = "post_config"
    /\ calls' = Append(calls, "post_config")
    /\ IF config = Nothing
       THEN /\ pc' = main_next("post_config", params.state)
            /\ UNCHANGED <<remote, requests, changed, failure>>
       ELSE /\ requests' = Append(requests, "POST")
            /\ \/ /\ remote' = (remote \ existing) \cup {written(url, existing, config)}
                  /\ changed' = TRUE
                  /\ pc' = main_next("post_config", params.state)
                  /\ UNCHANGED failure
               \/ /\ fail_json("remote_error", "post_config")
                  /\ UNCHANGED <<remote, changed>>
    /\ UNCHANGED <<args, remote0, url, existing, proposed, config, run, prev>>

\* aci.delete_config(): a delete is issued only when the object exists
delete_config ==
    /\ pc = "delete_config"
    /\ calls' = Append(calls, "delete_config")
    /\ IF existing = {}
       THEN /\ pc' = main_next("delete_config", params.state)
            /\ UNCHANGED <<remote, requests, changed, failure>>
       ELSE /\ requests' = Append(requests, "DELETE")
            /\ \/ /\ remote' = remote \ existing
                  /\ changed' = TRUE
                  /\ pc' = main_next("delete_config", params.state)
                  /\ UNCHANGED failure
               \/ /\ fail_json("remote_error", "delete_config")
                  /\ UNCHANGED <<remote, changed>>
    /\ UNCHANGED <<args, remote0, url, existing, proposed, config, run, prev>>

\* aci.exit_json(): the result is reported and the process ends
exit_json ==
    /\ pc = "exit_json"
    /\ calls' = Append(calls, "exit_json")
    /\ pc' = main_next("exit_json", params.state)
    /\ UNCHANGED <<args, remote, remote0, requests, url, existing, proposed, config,
                   changed, failure, run, prev>>

\* the same invocation is run again, a fresh process against the fabric as it is now
main ==
    /\ pc \in {"done", "failed"}
    /\ run < MaxRuns
    /\ run' = run + 1
    /\ prev' = pc
    /\ remote0' = remote
    /\ pc' = "AnsibleModule"
    /\ calls' = <<>>
    /\ requests' = <<>>
    /\ url' = NoUrl
    /\ existing' = {}
    /\ proposed' = Nothing
    /\ config' = Nothing
    /\ changed' = FALSE
    /\ failure' = NoFailure
    /\ UNCHANGED <<args, remote>>

Next ==
    \/ AnsibleModule
    \/ ACIModule
    \/ construct_url
    \/ get_existing
    \/ payload
    \/ get_diff
    \/ post_config
    \/ delete_config
    \/ exit_json
    \/ main

Spec == Init /\ [][Next]_vars

(***************************************************************************)
(* Vocabulary of the properties                                            *)
(***************************************************************************)
called(op) == \E i \in DOMAIN calls : calls[i] = op
requested(method) == \E i \in DOMAIN requests : requests[i] = method

RequiredFields == {"dhcp_label", "bd", "tenant"}

\* a required field is left out under state present or absent
required_missing ==
    /\ params.state \in {"present", "absent"}
    /\ \E k \in RequiredFields : args[k] = None

validation_failed == pc = "failed" /\ failure.op = "AnsibleModule"
passed_validation == pc # "AnsibleModule" /\ ~validation_failed

\* the label the invocation names exists in fabric f
label_exists(f) ==
    \E o \in f : dn(o) = <<params.tenant, params.bd, params.dhcp_label>>

\* the label the invocation names exists in fabric f with exactly the desired attributes
matches_desired(f) ==
    \E o \in f : /\ dn(o) = <<params.tenant, params.bd, params.dhcp_label>>
                 /\ o.owner = params.owner
                 /\ o.option = params.dhcp_option

IsPrefix(s, t) == Len(s) <= Len(t) /\ SubSeq(t, 1, Len(s)) = s

C2_QueryOnlyFetches ==
    params.state = "query" =>
        /\ ~called("payload") /\ ~called("get_diff")
        /\ ~called("post_config") /\ ~called("delete_config")
        /\ \A i \in DOMAIN requests : requests[i] = "GET"
        /\ remote = remote0
        /\ changed = FALSE

C2_Witness ==
    /\ params.state = "query"
    /\ pc = "done"
    /\ existing # {}
    /\ calls = <<"construct_url", "get_existing", "exit_json">>

(***************************************************************************)
(* C3: state present on a label whose remote attributes (name, owner,      *)
(* option-policy association) already equal the desired ones issues no     *)
(* write and reports changed = false; the second of two identical present  *)
(* invocations reports changed = false and leaves the fabric as the first  *)
(* one left it.                                                            *)
(***************************************************************************)
C3_PresentIdempotent ==
    (/\ params.state = "present"
     /\ \/ matches_desired(remote0)
        \/ run > 1 /\ prev = "done") =>
        /\ ~requested("POST")
        /\ changed = FALSE
        /\ remote = remote0
        /\ called("post_config") => config = Nothing

C3_Witness ==
    /\ params.state = "present"
    /\ run = 2 /\ prev = "done"
    /\ pc = "done"
    /\ called("post_config")
    /\ args.owner = "tenant"

(***************************************************************************)
(* C4: state absent on a label that does not exist remotely issues no      *)
(* delete request, reports changed = false and does not fail in            *)
(* delete_config; a delete request is issued only for an existing label.   *)
(***************************************************************************)
C4_AbsentOnMissingIsNoop ==
    /\ (params.state = "absent" /\ passed_validation /\ ~label_exists(remote0)) =>
           /\ ~requested("DELETE")
           /\ changed = FALSE
           /\ remote = remote0
           /\ called("delete_config") => pc \in {"exit_json", "done"}
    /\ requested("DELETE") => params.state = "absent" /\ label_exists(remote0)

C4_Witness ==
    /\ params.state = "absent"
    /\ ~label_exists(remote0)
    /\ pc = "done"
    /\ called("delete_config")
    /\ changed = FALSE

(***************************************************************************)
(* C5: state present on a label that does not exist remotely reports       *)
(* changed = true, and the payload of class dhcpLbl carries name = the     *)
(* dhcp_label input and owner = the owner input, infra when omitted.       *)
(***************************************************************************)
C5_PresentCreates ==
    (params.state = "present" /\ ~label_exists(remote0) /\ pc = "done") =>
        LET owner == IF args.owner = None THEN "infra" ELSE args.owner
        IN /\ changed = TRUE
           /\ proposed.attributes = { <<"name", args.dhcp_label>>, <<"owner", owner>> }
           /\ config.attributes = proposed.attributes
           /\ \E o \in remote : /\ dn(o) = <<args.tenant, args.bd, args.dhcp_label>>
                                /\ o.owner = owner

C5_Witness ==
    /\ params.state = "present"
    /\ ~label_exists(remote0)
    /\ pc = "done"
    /\ args.owner = None
    /\ changed = TRUE

(***************************************************************************)
(* C6: the locator passed to construct_url has exactly three segments, in  *)
(* the order tenant, bridge domain, label, of classes fvTenant, fvBD,      *)
(* dhcpLbl, with relative names tn-T, BD-B, dhcplbl-L and identifying      *)
(* values T, B, L; the child classes are exactly [dhcpRsDhcpOptionPol].    *)
(***************************************************************************)
C6_LocatorSegments ==
    called("construct_url") =>
        /\ Len(url.segments) = 3
        /\ <<url.segments[1].aci_class, url.segments[2].aci_class, url.segments[3].aci_class>>
               = <<"fvTenant", "fvBD", "dhcpLbl">>
        /\ <<url.segments[1].module_object, url.segments[2].module_object,
             url.segments[3].module_object>> = <<args.tenant, args.bd, args.dhcp_label>>
        /\ args.tenant # None => url.segments[1].aci_rn = "tn-" \o args.tenant
        /\ args.bd # None => url.segments[2].aci_rn = "BD-" \o args.bd
        /\ args.dhcp_label # None => url.segments[3].aci_rn = "dhcplbl-" \o args.dhcp_label
        /\ (args.tenant = "T1" /\ args.bd = "BD1" /\ args.dhcp_label = "L1") =>
               <<url.segments[1].aci_rn, url.segments[2].aci_rn, url.segments[3].aci_rn>>
                   = <<"tn-T1", "BD-BD1", "dhcplbl-L1">>
        /\ url.child_classes = <<"dhcpRsDhcpOptionPol">>

C6_Witness ==
    /\ called("construct_url")
    /\ args.tenant = "T1" /\ args.bd = "BD1" /\ args.dhcp_label = "L1"
    /\ url.segments[3].aci_rn = "dhcplbl-L1"

(***************************************************************************)
(* C7: no retries and no local recovery: in one invocation every           *)
(* collaborator operation is called at most once, at most one of           *)
(* post_config and delete_config is called, at most one write or delete    *)
(* request is issued, and once a collaborator operation has failed the     *)
(* invocation is failed and the failed operation is the last one called.   *)
(***************************************************************************)
C7_NoRetryNoRecovery ==
    /\ \A i, j \in DOMAIN calls : calls[i] = calls[j] => i = j
    /\ ~(called("post_config") /\ called("delete_config"))
    /\ Cardinality({i \in DOMAIN requests : requests[i] # "GET"}) <= 1
    /\ Cardinality({i \in DOMAIN requests : requests[i] = "GET"}) <= 1
    /\ failure # NoFailure <=> pc = "failed"
    /\ failure.kind = "remote_error" =>
           /\ failure.op = "ACIModule" => calls = <<>>
           /\ failure.op # "ACIModule" => calls # <<>> /\ calls[Len(calls)] = failure.op
           /\ ~called("exit_json")

C7_Witness ==
    /\ pc = "failed"
    /\ failure = [kind |-> "remote_error", op |-> "post_config"]
    /\ calls = <<"construct_url", "get_existing", "payload", "get_diff", "post_config">>

(***************************************************************************)
(* C8: an invocation that supplies description with otherwise valid        *)
(* parameters passes validation, and description is a recognized           *)
(* parameter, as the module's documentation declares.                      *)
(***************************************************************************)
C8_DescriptionAccepted ==
    (/\ pc # "AnsibleModule"
     /\ "description" \in args.extra
     /\ "description" \in DOCUMENTATION_options
     /\ ~required_missing) =>
        /\ ~validation_failed
        /\ "description" \in recognized

(***************************************************************************)
(* C9: under state present, an invocation that passes validation calls     *)
(* the collaborator in the order construct_url, get_existing, payload,     *)
(* get_diff, post_config, exit_json; delete_config is never called, and a  *)
(* finished run has called all six, exit_json last, changed or not.        *)
(***************************************************************************)
PresentOrder ==
    <<"construct_url", "get_existing", "payload", "get_diff", "post_config", "exit_json">>

C9_PresentCallOrder ==
    (params.state = "present" /\ passed_validation) =>
        /\ IsPrefix(calls, PresentOrder)
        /\ ~called("delete_config")
        /\ pc = "done" => calls = PresentOrder
        /\ pc = "failed" => failure.kind = "remote_error"

C9_Witness ==
    /\ params.state = "present"
    /\ pc = "done"
    /\ changed = FALSE
    /\ calls = PresentOrder

(***************************************************************************)
(* C10: the child payload built under state present holds exactly one      *)
(* dhcpRsDhcpOptionPol association, whose tnDhcpOptionPolName is the       *)
(* dhcp_option input, when dhcp_option is supplied, and none when it is    *)
(* omitted.                                                                *)
(***************************************************************************)
C10_ChildPayload ==
    called("payload") =>
        /\ Cardinality(proposed.children) <= 1
        /\ args.dhcp_option # None =>
               proposed.children =
                   { <<"dhcpRsDhcpOptionPol", "tnDhcpOptionPolName", args.dhcp_option>> }
        /\ args.dhcp_option = None => proposed.children = {}

C10_Witness ==
    /\ called("payload")
    /\ args.dhcp_option = "O1"
    /\ Cardinality(proposed.children) = 1

====
